---- MODULE Spec2Model ----
(***************************************************************************)
(* The GLSL-to-JS transform engine of lib/index.js as a state machine.     *)
(*                                                                         *)
(* The state is one compiler instance (the fields reset() creates, the     *)
(* `started` flag, and the `data` field of the literal nodes, which the    *)
(* literal handler rewrites).  One action per public operation: compile,   *)
(* process, variable, addInclude, stringifyStdlib, reset.  The tree walk   *)
(* is the recursive operator process/transform; an exception is a state    *)
(* with ok = FALSE that every later step of the same call passes through.  *)
(*                                                                         *)
(* Strings are sequences of tokens (a literal's text is one token per      *)
(* character); object keys are such sequences.  The descriptor cache is a  *)
(* Map keyed by object identity: a node is its id in tree, a Descriptor    *)
(* used as a key is taken by value.                                        *)
(***************************************************************************)
EXTENDS Integers, Sequences, FiniteSets, TLC

VARIABLES
  descriptors,   \* Map: node / Descriptor -> Descriptor
  scopes,        \* scope name -> [name, parentScope, vars]
  structs, uniforms, varyings, attributes, functions,
  includes,      \* the include set, in insertion order
  currentScope,
  started,
  tree,          \* the nodes of the parsed programs: kind, token, children
  data,          \* the data field of the literal nodes, which a walk rewrites
  events,        \* the 'start' / 'end' events emitted so far
  ret,           \* the last public call and what it returned
  nOps

vars ==
  <<descriptors, scopes, structs, uniforms, varyings, attributes, functions,
    includes, currentScope, started, tree, data, events, ret, nOps>>

\* Number of public calls made on the instance in one behaviour.
MaxOps == 2

Undefined == "undefined"

Digits == {"0", "1", "2", "3", "4", "5", "6", "7", "8", "9"}

RECURSIVE join(_, _)
join(texts, sep) ==
  IF texts = <<>> THEN <<>>
  ELSE IF Len(texts) = 1 THEN texts[1]
  ELSE texts[1] \o sep \o join(Tail(texts), sep)

RECURSIVE indexOf(_, _)
indexOf(s, c) ==
  IF s = <<>> THEN -1
  ELSE IF s[1] = c THEN 0
  ELSE LET r == indexOf(Tail(s), c) IN IF r < 0 THEN -1 ELSE r + 1

\* JS remainder: the sign of the result is the sign of the dividend.
jsRem(a, b) == IF a >= 0 THEN a % b ELSE -((-a) % b)

Texts(ds) == [i \in 1..Len(ds) |-> ds[i].text]

(***************************************************************************)
(* Descriptor (lib/descriptor.js is not among the sources): a String       *)
(* object carrying the option fields the handlers set and read.            *)
(***************************************************************************)
DefaultComplexity == 50

NoOptions ==
  [type |-> Undefined, complexity |-> -1, components |-> <<>>,
   include |-> <<>>, optimize |-> Undefined]

Descriptor(str, options) ==
  [text |-> str, visible |-> TRUE,
   type |-> options.type,
   complexity |-> IF options.complexity < 0 THEN DefaultComplexity
                  ELSE options.complexity,
   components |-> options.components,
   include |-> options.include,
   optimize |-> options.optimize]

\* Descriptor(null, options): renders to nothing.
DescriptorNull(options) ==
  [Descriptor(<<>>, options) EXCEPT !.visible = FALSE]

\* The options a Descriptor passed as options object carries.
AsOptions(d) ==
  [type |-> d.type, complexity |-> d.complexity, components |-> d.components,
   include |-> d.include, optimize |-> d.optimize]

(***************************************************************************)
(* External tables: library catalog, builtins, rename tables.              *)
(***************************************************************************)
\* name -> [src, name (rename target, <<>> if none), include, props, type]
stdlib ==
  (<<"sin">> :> [src |-> "function sin", name |-> <<"sin">>, include |-> <<>>,
                 props |-> {}, type |-> "float"]) @@
  (<<"mix">> :> [src |-> "function mix", name |-> <<>>,
                 include |-> << [name |-> <<"vec2">>, prop |-> <<"scale">>],
                                [name |-> <<"vec2">>, prop |-> <<"nomethod">>] >>,
                 props |-> {}, type |-> Undefined]) @@
  (<<"vec2">> :> [src |-> "function vec2", name |-> <<>>, include |-> <<>>,
                  props |-> {<<"scale">>}, type |-> "vec2"])

builtins == (<<"gl_FragColor">> :> "vec4")

varchanges == (<<"float">> :> <<"double">>)

callchanges == (<<"foo">> :> <<"bar">>)

(***************************************************************************)
(* The syntax nodes handed to the instance (the parser is external): one   *)
(* arena of nodes, a node's identity being its index.  Slots of a decl are *)
(* children[0..5]: [1] the storage placeholder, [4] the type keyword, [5]  *)
(* the decllist / function; the unused slots share the placeholder node.   *)
(***************************************************************************)
NoNode == 0

N(type, text, children, parent) ==
  [type |-> type, own |-> TRUE, data |-> text, tok |-> text,
   children |-> children, parent |-> parent]

Decl(tok, typeNode, last, parent) ==
  [type |-> "decl", own |-> TRUE, data |-> <<>>, tok |-> tok,
   children |-> <<1, 1, 1, 1, typeNode>> \o last, parent |-> parent]

SharedNodes ==
  (1 :> N("placeholder", <<"var">>, <<>>, NoNode)) @@
  (2 :> N("keyword", <<"float">>, <<>>, NoNode)) @@
  (3 :> N("keyword", <<"int">>, <<>>, NoNode))

\* literals, an identifier
LeavesNodes ==
  (10 :> N("literal", <<"1">>, <<>>, NoNode)) @@
  (11 :> N("literal", <<"1", ".", "5">>, <<>>, NoNode)) @@
  (12 :> N("literal", <<".", "5">>, <<>>, NoNode)) @@
  (13 :> N("literal", <<"1", "e", "5">>, <<>>, NoNode)) @@
  (14 :> N("ident", <<"a">>, <<>>, NoNode))

\* +a   -a   +(-a)   !a   ~0x1F
UnariesNodes ==
  (20 :> N("unary", <<"+">>, <<21>>, NoNode)) @@
  (21 :> N("ident", <<"a">>, <<>>, 20)) @@
  (22 :> N("unary", <<"-">>, <<23>>, NoNode)) @@
  (23 :> N("ident", <<"a">>, <<>>, 22)) @@
  (24 :> N("unary", <<"+">>, <<25>>, NoNode)) @@
  (25 :> N("unary", <<"-">>, <<26>>, 24)) @@
  (26 :> N("ident", <<"a">>, <<>>, 25)) @@
  (27 :> N("unary", <<"!">>, <<28>>, NoNode)) @@
  (28 :> N("ident", <<"a">>, <<>>, 27)) @@
  (29 :> N("unary", <<"~">>, <<30>>, NoNode)) @@
  (30 :> N("literal", <<"0", "x", "1", "F">>, <<>>, 29))

\* gl_FragColor.xy   gl_FragColor.yx   an operator that is no access
AccessesNodes ==
  (31 :> N("operator", <<".">>, <<32, 33>>, NoNode)) @@
  (32 :> N("builtin", <<"gl_FragColor">>, <<>>, 31)) @@
  (33 :> N("ident", <<"x", "y">>, <<>>, 31)) @@
  (34 :> N("operator", <<".">>, <<35, 36>>, NoNode)) @@
  (35 :> N("builtin", <<"gl_FragColor">>, <<>>, 34)) @@
  (36 :> N("ident", <<"y", "x">>, <<>>, 34)) @@
  (37 :> N("operator", <<"?">>, <<>>, NoNode))

\* sin(1)   sin(1.5)   mix(a)   foo(a)
CallsNodes ==
  (40 :> N("call", <<>>, <<41, 42>>, 155)) @@
  (41 :> N("ident", <<"sin">>, <<>>, 40)) @@
  (42 :> N("literal", <<"1">>, <<>>, 40)) @@
  (43 :> N("call", <<>>, <<44, 45>>, 157)) @@
  (44 :> N("ident", <<"sin">>, <<>>, 43)) @@
  (45 :> N("literal", <<"1", ".", "5">>, <<>>, 43)) @@
  (46 :> N("call", <<>>, <<47, 48>>, 163)) @@
  (47 :> N("ident", <<"mix">>, <<>>, 46)) @@
  (48 :> N("ident", <<"a">>, <<>>, 46)) @@
  (49 :> N("call", <<>>, <<50, 51>>, 166)) @@
  (50 :> N("ident", <<"foo">>, <<>>, 49)) @@
  (51 :> N("ident", <<"a">>, <<>>, 49))

\* float f (float a) {}
FunctionANodes ==
  (60 :> Decl(<<"float">>, 2, <<61>>, 151)) @@
  (61 :> N("function", <<>>, <<62, 63, 64>>, 60)) @@
  (62 :> N("ident", <<"f">>, <<>>, 61)) @@
  (63 :> N("functionargs", <<>>, <<65>>, 61)) @@
  (64 :> N("stmtlist", <<>>, <<>>, 61)) @@
  (65 :> Decl(<<"float">>, 2, <<66>>, 63)) @@
  (66 :> N("decllist", <<>>, <<67>>, 65)) @@
  (67 :> N("ident", <<"a">>, <<>>, 66))

\* float f () {}
FunctionNoneNodes ==
  (70 :> Decl(<<"float">>, 2, <<71>>, 152)) @@
  (71 :> N("function", <<>>, <<72, 73, 74>>, 70)) @@
  (72 :> N("ident", <<"f">>, <<>>, 71)) @@
  (73 :> N("functionargs", <<>>, <<>>, 71)) @@
  (74 :> N("stmtlist", <<>>, <<>>, 71))

\* int f (int b) { sin(b); }
FunctionBNodes ==
  (80 :> Decl(<<"int">>, 3, <<81>>, 169)) @@
  (81 :> N("function", <<>>, <<82, 83, 84>>, 80)) @@
  (82 :> N("ident", <<"f">>, <<>>, 81)) @@
  (83 :> N("functionargs", <<>>, <<85>>, 81)) @@
  (84 :> N("stmtlist", <<>>, <<88>>, 81)) @@
  (85 :> Decl(<<"int">>, 3, <<86>>, 83)) @@
  (86 :> N("decllist", <<>>, <<87>>, 85)) @@
  (87 :> N("ident", <<"b">>, <<>>, 86)) @@
  (88 :> N("stmt", <<>>, <<89>>, 84)) @@
  (89 :> N("expr", <<>>, <<90>>, 88)) @@
  (90 :> N("call", <<>>, <<91, 92>>, 89)) @@
  (91 :> N("ident", <<"sin">>, <<>>, 90)) @@
  (92 :> N("ident", <<"b">>, <<>>, 90))

\* float g ();                          a prototype: no body
PrototypeNodes ==
  (100 :> Decl(<<"float">>, 2, <<101>>, 168)) @@
  (101 :> N("function", <<>>, <<102, 103>>, 100)) @@
  (102 :> N("ident", <<"g">>, <<>>, 101)) @@
  (103 :> N("functionargs", <<>>, <<>>, 101))

\* a function node of argument list and body, no identifier
NoIdentifierNodes ==
  (104 :> Decl(<<"float">>, 2, <<105>>, NoNode)) @@
  (105 :> N("function", <<>>, <<106, 107>>, 104)) @@
  (106 :> N("functionargs", <<>>, <<>>, 105)) @@
  (107 :> N("stmtlist", <<>>, <<>>, 105))

\* three children, the first no identifier
FirstNoIdentNodes ==
  (108 :> Decl(<<"float">>, 2, <<109>>, NoNode)) @@
  (109 :> N("function", <<>>, <<110, 111, 112>>, 108)) @@
  (110 :> N("keyword", <<"h">>, <<>>, 109)) @@
  (111 :> N("functionargs", <<>>, <<>>, 109)) @@
  (112 :> N("stmtlist", <<>>, <<>>, 109))

\* three children, the second no argument list
SecondNoArgsNodes ==
  (113 :> Decl(<<"float">>, 2, <<114>>, NoNode)) @@
  (114 :> N("function", <<>>, <<115, 116, 117>>, 113)) @@
  (115 :> N("ident", <<"g">>, <<>>, 114)) @@
  (116 :> N("decllist", <<>>, <<>>, 114)) @@
  (117 :> N("stmtlist", <<>>, <<>>, 114))

\* three children, the third no body
ThirdNoBodyNodes ==
  (118 :> Decl(<<"float">>, 2, <<119>>, 159)) @@
  (119 :> N("function", <<>>, <<120, 121, 122>>, 118)) @@
  (120 :> N("ident", <<"g">>, <<>>, 119)) @@
  (121 :> N("functionargs", <<>>, <<>>, 119)) @@
  (122 :> N("ident", <<"a">>, <<>>, 119))

\* struct S { float x; };     struct T { a };
StructsNodes ==
  (130 :> Decl(<<"struct">>, 131, <<>>, NoNode)) @@
  (131 :> N("struct", <<>>, <<132, 133>>, 130)) @@
  (132 :> N("ident", <<"S">>, <<>>, 131)) @@
  (133 :> Decl(<<"float">>, 2, <<134>>, 131)) @@
  (134 :> N("decllist", <<>>, <<135>>, 133)) @@
  (135 :> N("ident", <<"x">>, <<>>, 134)) @@
  (136 :> Decl(<<"struct">>, 137, <<>>, NoNode)) @@
  (137 :> N("struct", <<>>, <<138, 139>>, 136)) @@
  (138 :> N("ident", <<"T">>, <<>>, 137)) @@
  (139 :> N("ident", <<"a">>, <<>>, 137))

\* float g () {}        float global () {}
FunctionGNodes ==
  (170 :> Decl(<<"float">>, 2, <<171>>, NoNode)) @@
  (171 :> N("function", <<>>, <<172, 173, 174>>, 170)) @@
  (172 :> N("ident", <<"g">>, <<>>, 171)) @@
  (173 :> N("functionargs", <<>>, <<>>, 171)) @@
  (174 :> N("stmtlist", <<>>, <<>>, 171)) @@
  (175 :> Decl(<<"float">>, 2, <<176>>, NoNode)) @@
  (176 :> N("function", <<>>, <<177, 178, 179>>, 175)) @@
  (177 :> N("ident", <<"global">>, <<>>, 176)) @@
  (178 :> N("functionargs", <<>>, <<>>, 176)) @@
  (179 :> N("stmtlist", <<>>, <<>>, 176))

\* (a, 1)      (-a)      ()
GroupsNodes ==
  (180 :> N("group", <<>>, <<181, 182>>, NoNode)) @@
  (181 :> N("ident", <<"a">>, <<>>, 180)) @@
  (182 :> N("literal", <<"1">>, <<>>, 180)) @@
  (183 :> N("group", <<>>, <<184>>, NoNode)) @@
  (184 :> N("unary", <<"-">>, <<185>>, 183)) @@
  (185 :> N("ident", <<"a">>, <<>>, 184)) @@
  (186 :> N("group", <<>>, <<>>, NoNode))

\* a node whose type is inherited, a node of a kind without handler
OddNodes ==
  (140 :> [N("ident", <<"a">>, <<>>, NoNode) EXCEPT !.own = FALSE]) @@
  (141 :> N("quantifier", <<>>, <<>>, NoNode))

\* programs
ProgramsNodes ==
  (150 :> N("stmtlist", <<>>, <<151, 152>>, NoNode)) @@
  (151 :> N("stmt", <<>>, <<60>>, 150)) @@
  (152 :> N("stmt", <<>>, <<70>>, 150)) @@
  (153 :> N("stmtlist", <<>>, <<154, 156>>, NoNode)) @@
  (154 :> N("stmt", <<>>, <<155>>, 153)) @@
  (155 :> N("expr", <<>>, <<40>>, 154)) @@
  (156 :> N("stmt", <<>>, <<157>>, 153)) @@
  (157 :> N("expr", <<>>, <<43>>, 156)) @@
  (158 :> N("stmtlist", <<>>, <<159, 165>>, NoNode)) @@
  (159 :> N("stmt", <<>>, <<118>>, 158)) @@
  (165 :> N("stmt", <<>>, <<166>>, 158)) @@
  (166 :> N("expr", <<>>, <<49>>, 165)) @@
  (161 :> N("stmtlist", <<>>, <<162>>, NoNode)) @@
  (162 :> N("stmt", <<>>, <<163>>, 161)) @@
  (163 :> N("expr", <<>>, <<46>>, 162)) @@
  (167 :> N("stmtlist", <<>>, <<168, 169>>, NoNode)) @@
  (168 :> N("stmt", <<>>, <<100>>, 167)) @@
  (169 :> N("stmt", <<>>, <<80>>, 167))

Arena ==
  SharedNodes @@ LeavesNodes @@ UnariesNodes @@ AccessesNodes @@
  CallsNodes @@ FunctionANodes @@ FunctionNoneNodes @@ FunctionBNodes @@
  PrototypeNodes @@ NoIdentifierNodes @@ FirstNoIdentNodes @@ SecondNoArgsNodes @@
  ThirdNoBodyNodes @@ StructsNodes @@ FunctionGNodes @@ GroupsNodes @@
  OddNodes @@
  ProgramsNodes

Nodes == DOMAIN Arena

LiteralNodes == {n \in Nodes : Arena[n].type = "literal"}

\* The nodes compile and process are called on.
Roots == {150, 153, 158, 161, 167}

TopNodes ==
  {10, 11, 12, 13, 20, 22, 24, 27, 29, 31, 34, 37, 49,
   60, 70, 80, 100, 104, 108, 113, 118, 130, 136, 140, 141, 170, 175,
   180, 183, 186}

\* node.children[i], undefined past the end
child(node, i) ==
  IF i + 1 <= Len(tree[node].children) THEN tree[node].children[i + 1]
  ELSE NoNode

(***************************************************************************)
(* The instance.                                                           *)
(***************************************************************************)
\* GLSL.prototype.optimize
optimize == TRUE

EmptyMap == <<>>

Put(map, key, value) ==
  IF key \in DOMAIN map THEN [map EXCEPT ![key] = value]
  ELSE (key :> value) @@ map

Global == <<"global">>

\* __parentScope of the root scope
Null == <<>>

\* The fields reset() sets, on an instance whose tree nodes hold `data`.
reset(st) ==
  [st EXCEPT
     !.descriptors = EmptyMap,
     !.scopes = (Global :> [name |-> Global, parentScope |-> Null,
                            vars |-> EmptyMap]),
     !.structs = EmptyMap,
     !.uniforms = EmptyMap,
     !.varyings = EmptyMap,
     !.attributes = EmptyMap,
     !.functions = EmptyMap,
     !.includes = <<>>,
     !.currentScope = Global]

Throw(st, message) == [st EXCEPT !.ok = FALSE, !.error = message]

\* Keys of the descriptor Map: a node, a Descriptor, or a primitive.
NodeKey(node) == [node |-> node, desc |-> DescriptorNull(NoOptions)]
DescKey(d) == [node |-> -1, desc |-> d]

cache(st, key, value) ==
  IF key \in DOMAIN st.descriptors THEN st
  ELSE [st EXCEPT !.descriptors = Put(@, key, value)]

\* The part of addInclude for one name (lines 1021-1027).
includeIndex(list, name) ==
  LET hits == {i \in 1..Len(list) : list[i].name = name}
  IN IF hits = {} THEN 0 ELSE CHOOSE i \in hits : \A j \in hits : i <= j

addIncludeAlways(st, name, prop) ==
  [st EXCEPT !.includes =
     Append(@, [name |-> name,
                props |-> IF prop = <<>> THEN <<>> ELSE <<prop>>])]

addIncludeName(st, name, prop) ==
  LET i == includeIndex(st.includes, name)
  IN IF prop = <<>>
     THEN IF i = 0
          THEN [st EXCEPT !.includes = Append(@, [name |-> name, props |-> <<>>])]
          ELSE st
     ELSE IF i = 0
          THEN [st EXCEPT !.includes = Append(@, [name |-> name, props |-> <<prop>>])]
          ELSE IF \E k \in 1..Len(st.includes[i].props) :
                    st.includes[i].props[k] = prop
               THEN st
               ELSE [st EXCEPT !.includes[i].props = Append(@, prop)]

\* addInclude of an array of names / {name: prop} objects.
RECURSIVE addInclude(_, _)
addInclude(st, include) ==
  IF include = <<>> THEN st
  ELSE addInclude(addIncludeName(st, include[1].name, include[1].prop),
                  Tail(include))

\* The lines pushed for one entry's sub-methods (lines 1044-1052).
RECURSIVE stringifyProps(_, _)
stringifyProps(meth, props) ==
  IF props = <<>> THEN <<>>
  ELSE (IF props[1] \in stdlib[meth].props
        THEN << meth \o <<".">> \o props[1] \o <<" = ", "function">> >>
        ELSE <<>>)
       \o stringifyProps(meth, Tail(props))

\* [ok, methods]: ok is FALSE when this.stdlib[meth] is undefined, whose
\* toString() call throws a TypeError.
RECURSIVE stringifyStdlib(_)
stringifyStdlib(list) ==
  IF list = <<>> THEN [ok |-> TRUE, methods |-> <<>>]
  ELSE LET meth == list[1].name
       IN IF meth \notin DOMAIN stdlib THEN [ok |-> FALSE, methods |-> <<>>]
          ELSE LET rest == stringifyStdlib(Tail(list))
               IN [ok |-> rest.ok,
                   methods |-> << <<stdlib[meth].src>> >>
                               \o stringifyProps(meth, list[1].props)
                               \o rest.methods]

(***************************************************************************)
(* optimizeDescriptor                                                      *)
(***************************************************************************)
RECURSIVE sumComplexity(_)
sumComplexity(components) ==
  IF components = <<>> THEN 0
  ELSE components[1].complexity + sumComplexity(Tail(components))

RECURSIVE concatIncludes(_)
concatIncludes(components) ==
  IF components = <<>> THEN <<>>
  ELSE components[1].include \o concatIncludes(Tail(components))

MatTypes == {"mat2", "mat3", "mat4"}

\* parseInt(descriptor.type[3])
matDim(type) == CASE type = "mat2" -> 2 [] type = "mat3" -> 3 [] OTHER -> 4

\* parseFloat of a component's text: its leading decimal number, else NaN,
\* which JSON.stringify renders as null.
RECURSIVE leadingDigits(_)
leadingDigits(s) ==
  IF s = <<>> \/ s[1] \notin Digits THEN <<>>
  ELSE <<s[1]>> \o leadingDigits(Tail(s))

parseFloat(s) ==
  LET int == leadingDigits(s)
      rest == SubSeq(s, Len(int) + 1, Len(s))
      frac == IF rest # <<>> /\ rest[1] = "." THEN leadingDigits(Tail(rest))
              ELSE <<>>
  IN IF int = <<>> /\ frac = <<>> THEN <<"null">>
     ELSE IF frac = <<>> THEN int
     ELSE int \o <<".">> \o frac

\* JSON.stringify of the components split into rows of cur_dim.
RECURSIVE jsonRows(_, _)
jsonRows(components, dim) ==
  IF components = <<>> THEN <<>>
  ELSE LET k == IF Len(components) < dim THEN Len(components) ELSE dim
           row == [i \in 1..k |-> parseFloat(components[i].text)]
       IN << <<"[">> \o join(row, <<",">>) \o <<"]">> >>
          \o jsonRows(SubSeq(components, k + 1, Len(components)), dim)

optimizeDescriptor(descriptor) ==
  IF optimize /\ descriptor.optimize # "false"
  THEN LET complexity == sumComplexity(descriptor.components)
       IN IF complexity < descriptor.complexity
             /\ Len(descriptor.components) > 1
          THEN IF descriptor.type \in MatTypes
               THEN Descriptor(<<"[">> \o join(jsonRows(descriptor.components,
                                                        matDim(descriptor.type)),
                                               <<",">>) \o <<"]">>,
                               NoOptions)
               ELSE Descriptor(<<"[">> \o join(Texts(descriptor.components),
                                               <<", ">>) \o <<"]">>,
                               [AsOptions(descriptor) EXCEPT
                                  !.include = concatIncludes(descriptor.components),
                                  !.complexity = complexity])
          ELSE descriptor
  ELSE descriptor

\* The components of a matrix Descriptor after lines 269-276: the flat
\* list spliced into rows of cur_dim numbers.
RECURSIVE numberRows(_, _)
numberRows(components, dim) ==
  IF components = <<>> THEN <<>>
  ELSE LET k == IF Len(components) < dim THEN Len(components) ELSE dim
       IN << [row |-> [i \in 1..k |-> parseFloat(components[i].text)]] >>
          \o numberRows(SubSeq(components, k + 1, Len(components)), dim)

\* The Descriptor handed to optimizeDescriptor, as the call leaves it:
\* line 272 assigns the rows to its components, and extend (xtend/mutable,
\* line 280) writes include and complexity into it.
optimizeDescriptorLeaves(descriptor) ==
  IF optimize /\ descriptor.optimize # "false"
     /\ sumComplexity(descriptor.components) < descriptor.complexity
     /\ Len(descriptor.components) > 1
  THEN IF descriptor.type \in MatTypes
       THEN [descriptor EXCEPT
               !.components = numberRows(@, matDim(descriptor.type))]
       ELSE [descriptor EXCEPT
               !.include = concatIncludes(descriptor.components),
               !.complexity = sumComplexity(descriptor.components)]
  ELSE descriptor

(***************************************************************************)
(* The regular expressions and conversions of the literal handler.         *)
(***************************************************************************)
isDigits(s) == \A i \in 1..Len(s) : s[i] \in Digits

\* /^-?[0-9]*(?:.[0-9]+)?(?:e-?[0-9]+)?$/i  -- the dot is unescaped
floatRE(s) ==
  \E a, b, c \in 0..Len(s) :
    /\ a <= b /\ b <= c
    /\ LET sign == SubSeq(s, 1, a)
           int == SubSeq(s, a + 1, b)
           frac == SubSeq(s, b + 1, c)
           exp == SubSeq(s, c + 1, Len(s))
       IN /\ sign = <<>> \/ sign = <<"-">>
          /\ isDigits(int)
          /\ frac = <<>> \/ (Len(frac) >= 2 /\ isDigits(Tail(frac)))
          /\ \/ exp = <<>>
             \/ /\ Len(exp) >= 2
                /\ exp[1] \in {"e", "E"}
                /\ LET d == IF exp[2] = "-" THEN SubSeq(exp, 3, Len(exp))
                            ELSE Tail(exp)
                   IN d # <<>> /\ isDigits(d)

\* node.data.split('.')[0]
beforeDot(s) ==
  LET i == indexOf(s, ".") IN IF i < 0 THEN s ELSE SubSeq(s, 1, i)

\* /^[0-9]+$/
intRE(s) == s # <<>> /\ isDigits(s)

\* /^[0-9][xob]/
radixRE(s) == Len(s) >= 2 /\ s[1] \in Digits /\ s[2] \in {"x", "o", "b"}

lower(c) ==
  CASE c = "T" -> "t" [] c = "R" -> "r" [] c = "U" -> "u" [] c = "E" -> "e"
    [] c = "F" -> "f" [] c = "A" -> "a" [] c = "L" -> "l" [] c = "S" -> "s"
    [] OTHER -> c

\* /true|false/i
boolRE(s) ==
  \E i \in 1..Len(s), w \in {<<"t", "r", "u", "e">>, <<"f", "a", "l", "s", "e">>} :
    /\ i + Len(w) - 1 <= Len(s)
    /\ \A k \in 1..Len(w) : lower(s[i + k - 1]) = w[k]

HexDigits ==
  <<"0", "1", "2", "3", "4", "5", "6", "7", "8", "9",
    "a", "b", "c", "d", "e", "f">>

hexLower(c) ==
  CASE c = "A" -> "a" [] c = "B" -> "b" [] c = "C" -> "c" [] c = "D" -> "d"
    [] c = "E" -> "e" [] c = "F" -> "f" [] OTHER -> c

RECURSIVE digitsValue(_, _, _)
digitsValue(s, base, acc) ==
  IF s = <<>> THEN acc
  ELSE LET v == indexOf(HexDigits, hexLower(s[1]))
       IN IF v < 0 \/ v >= base THEN -1
          ELSE digitsValue(Tail(s), base, acc * base + v)

RECURSIVE decimal(_)
decimal(n) ==
  IF n < 10 THEN <<HexDigits[n + 1]>>
  ELSE decimal(n \div 10) \o <<HexDigits[(n % 10) + 1]>>

\* Number(data) of a literal that starts like 0x / 0o / 0b; a JS literal of
\* that form with a leading digit other than 0, or a bad digit, is NaN.
Number(s) ==
  LET base == CASE s[2] = "x" -> 16 [] s[2] = "o" -> 8 [] OTHER -> 2
      v == IF Len(s) < 3 THEN -1 ELSE digitsValue(SubSeq(s, 3, Len(s)), base, 0)
  IN IF s[1] # "0" \/ v < 0 THEN <<"NaN">> ELSE decimal(v)

(***************************************************************************)
(* Swizzles                                                                *)
(***************************************************************************)
swizzles == <<"x", "y", "z", "w", "s", "t", "p", "d", "r", "g", "b", "a">>

swizzlePositions(prop) ==
  [i \in 1..Len(prop) |-> jsRem(indexOf(swizzles, prop[i]), 4)]

(***************************************************************************)
(* The tree walk.  A handler returns [st, d, str]: the instance after it,  *)
(* the value it returned, and whether that value is a plain string (the    *)
(* placeholder handler's) instead of a Descriptor.                         *)
(***************************************************************************)
R(st, d) == [st |-> st, d |-> d, str |-> FALSE]

Failed(st, message) == R(Throw(st, message), DescriptorNull(NoOptions))

nodeData(st, node) ==
  IF node \in DOMAIN st.data THEN st.data[node] ELSE tree[node].data

\* The type tag a one-token text names.
typeTag(text) == IF Len(text) = 1 THEN text[1] ELSE Undefined

\* assert.equal(actual, expected)
assertOff(actual, expected) == TRUE

assertEqual(actual, expected) == actual = expected

RECURSIVE process(_, _)
RECURSIVE processAll(_, _)

processRest(d, rest) == [st |-> rest.st, ds |-> <<d>> \o rest.ds]

\* node.children.map(this.process, this): [st, ds]
processTail(r, nodes) == processRest(r.d, processAll(r.st, nodes))

processAll(st, nodes) ==
  IF nodes = <<>> THEN [st |-> st, ds |-> <<>>]
  ELSE processTail(process(st, nodes[1]), Tail(nodes))

\* Descriptor(values.join(sep), options)
joined(values, sep, options) ==
  R(values.st, Descriptor(join(Texts(values.ds), sep), options))

stmtlist(st, node) ==
  IF tree[node].children = <<>> THEN R(st, DescriptorNull(NoOptions))
  ELSE joined(processAll(st, tree[node].children), <<"\n">>, NoOptions)

\* Lines 321-324 on the processed children.
stmtOf(values) ==
  R(values.st,
    Descriptor(IF join(Texts(values.ds), <<>>) # <<>>
               THEN join(Texts(values.ds), <<>>) \o <<";">>
               ELSE <<>>,
               NoOptions))

stmt(st, node) == stmtOf(processAll(st, tree[node].children))

\* The member checks of lines 335-346.
structMemberOk(arg) ==
  /\ assertEqual(tree[arg].type, "decl")
  /\ tree[arg].children # <<>>
  /\ LET decllist == tree[arg].children[Len(tree[arg].children)]
     IN /\ assertEqual(tree[decllist].type, "decllist")
        /\ \A i \in 1..Len(tree[decllist].children) :
             assertEqual(tree[tree[decllist].children[i]].type, "ident")

\* this.types is set neither by the constructor nor on the prototype, so the
\* registration of line 389 throws before this.structs is written.
struct(st, node) ==
  IF \E i \in 2..Len(tree[node].children) :
       ~structMemberOk(tree[node].children[i])
  THEN Failed(st, "AssertionError")
  ELSE Failed(st, "TypeError")

replaceNewlines(text) ==
  [i \in 1..Len(text) |-> IF text[i] = "\n" THEN "\n\t" ELSE text[i]]

\* Lines 419-421: the registry name, suffixed with the argument types when
\* the base name is taken and the suffix is not empty.
functionName(registry, name, args) ==
  IF name \in DOMAIN registry
     /\ join([i \in 1..Len(args) |-> <<args[i].type>>], <<"_">>) # <<>>
  THEN name \o <<"_">>
       \o join([i \in 1..Len(args) |-> <<args[i].type>>], <<"_">>)
  ELSE name

\* Lines 436-444: the emitted definition and its registration.
functionResult(st, name, result) ==
  R([st EXCEPT !.functions = Put(@, name, result)], result)

\* Lines 426-434 on body, the processed statement list.
functionBody(node, name, args, body) ==
  IF ~body.st.ok THEN body
  ELSE IF body.st.scopes[body.st.currentScope].parentScope = Null
  THEN Failed(body.st, "TypeError")
  ELSE functionResult(
         [body.st EXCEPT
            !.currentScope = body.st.scopes[body.st.currentScope].parentScope],
         name,
         Descriptor(replaceNewlines(<<"function ">> \o name \o <<" (">>
                                    \o args \o <<") {", "\n">>
                                    \o body.d.text)
                    \o <<"\n", "}">>,
                    [NoOptions EXCEPT
                       !.type = typeTag(tree[child(tree[node].parent, 4)].tok),
                       !.complexity = 999]))

\* Lines 408-424 on args, the processed argument list.
functionArgs(node, name, args) ==
  IF ~args.st.ok THEN args
  ELSE IF tree[node].parent = NoNode \/ child(tree[node].parent, 4) = NoNode
  THEN Failed(args.st, "TypeError")
  ELSE IF ~assertEqual(tree[child(node, 2)].type, "stmtlist")
  THEN Failed(args.st, "AssertionError")
  ELSE functionBody(node,
                    functionName(args.st.functions, name, args.d.components),
                    args.d.text, process(args.st, child(node, 2)))

\* Lines 404-406 on name, the processed identifier.
functionIdent(node, name) ==
  IF ~name.st.ok THEN name
  ELSE IF ~assertEqual(tree[child(node, 1)].type, "functionargs")
  THEN Failed(name.st, "AssertionError")
  ELSE functionArgs(node, name.d.text, process(name.st, child(node, 1)))

function(st, node) ==
  IF Len(tree[node].children) < 3 THEN R(st, DescriptorNull(NoOptions))
  ELSE IF ~assertEqual(tree[child(node, 0)].type, "ident")
  THEN Failed(st, "AssertionError")
  ELSE functionIdent(node, process(st, child(node, 0)))

\* Lines 450-459: the scope named after the function is entered, and
\* created under the scope left if it does not exist.
functionScope(st, scopeName) ==
  [st EXCEPT
     !.currentScope = scopeName,
     !.scopes = IF scopeName \in DOMAIN @ THEN @
                ELSE Put(@, scopeName, [name |-> scopeName,
                                        parentScope |-> st.currentScope,
                                        vars |-> EmptyMap])]

\* Lines 463-465 on comps, the processed children.
functionargsOf(comps) ==
  R(comps.st, Descriptor(join(Texts(comps.ds), <<", ">>),
                         [NoOptions EXCEPT !.components = comps.ds]))

functionargs(st, node) ==
  IF tree[node].parent # NoNode /\ child(tree[node].parent, 0) = NoNode
  THEN Failed(st, "TypeError")
  ELSE functionargsOf(
         processAll(functionScope(
                      st,
                      IF tree[node].parent = NoNode
                         \/ nodeData(st, child(tree[node].parent, 0)) = <<>>
                      THEN Global
                      ELSE nodeData(st, child(tree[node].parent, 0))),
                    tree[node].children))

decllist(st, node) ==
  joined(processAll(st, tree[node].children), <<", ">>, NoOptions)

\* Lines 507-523 on result, the processed declaration list.
declResult(node, result) ==
  IF ~result.st.ok THEN result
  ELSE IF result.d.text = <<>>
  THEN R(result.st,
         DescriptorNull([NoOptions EXCEPT !.type = result.d.type,
                                          !.components = result.d.components,
                                          !.optimize = "false"]))
  ELSE R(result.st,
         Descriptor(tree[child(node, 1)].tok \o <<" ">>
                    \o (IF tree[child(node, 4)].tok \in DOMAIN varchanges
                        THEN varchanges[tree[child(node, 4)].tok]
                        ELSE tree[child(node, 4)].tok)
                    \o <<" ">> \o result.d.text,
                    [NoOptions EXCEPT !.type = result.d.type,
                                      !.components = result.d.components,
                                      !.optimize = "false"]))

\* Lines 485-504, list being node.children[5], the source's decllist.
declList(st, node, list) ==
  IF list = NoNode THEN Failed(st, "TypeError")
  ELSE IF tree[list].type \notin {"decllist", "function", "struct"}
  THEN Failed(st, "AssertionError")
  ELSE IF tree[list].type = "function" THEN process(st, list)
  ELSE IF tree[node].parent = NoNode THEN Failed(st, "TypeError")
  ELSE IF tree[tree[node].parent].type = "functionargs"
  THEN process(st, list)
  ELSE declResult(node, process(st, list))

\* Lines 479-482 on type, the processed type node.
declStruct(node, type) ==
  IF ~type.st.ok THEN type
  ELSE IF child(node, 5) = NoNode THEN R(type.st, DescriptorNull(NoOptions))
  ELSE declList(type.st, node, child(node, 5))

decl(st, node) ==
  IF tree[node].tok = <<"struct">>
  THEN declStruct(node, process(st, child(node, 4)))
  ELSE declList(st, node, child(node, 5))

\* Returns node.token.data, a plain string.
placeholder(st, node) ==
  [st |-> st, d |-> Descriptor(tree[node].tok, NoOptions), str |-> TRUE]

\* Lines 574-579 on base, the processed first child (the source's ident).
access(prop, base) ==
  IF ~base.st.ok THEN base
  ELSE R(base.st, Descriptor(base.d.text \o <<".">> \o prop,
                             [NoOptions EXCEPT !.type = base.d.type]))

operator(st, node) ==
  IF nodeData(st, node) = <<".">>
  THEN access(nodeData(st, child(node, 1)), process(st, child(node, 0)))
  ELSE Failed(st, "Error")

expr(st, node) == joined(processAll(st, tree[node].children), <<>>, NoOptions)

keyword(st, node) ==
  LET str == nodeData(st, node)
  IN R(st, Descriptor(str,
                      [NoOptions EXCEPT
                         !.type = IF str \in {<<"true">>, <<"false">>}
                                  THEN "bool" ELSE typeTag(str),
                         !.complexity = 0,
                         !.optimize = "false"]))

\* The closest scope holding id, from the scope named `name`; Null if none.
RECURSIVE closestScope(_, _, _)
closestScope(table, name, id) ==
  IF name = Null THEN Null
  ELSE IF id \in DOMAIN table[name].vars THEN name
  ELSE closestScope(table, table[name].parentScope, id)

ident(st, node) ==
  LET id == tree[node].tok
      scope == closestScope(st.scopes, st.currentScope, id)
      str == nodeData(st, node)
  IN IF scope # Null
     THEN R(st, Descriptor(str, [NoOptions EXCEPT
                                   !.type = st.scopes[scope].vars[id].type,
                                   !.complexity = 0]))
     ELSE R(st, Descriptor(str, [NoOptions EXCEPT !.complexity = 0]))

\* Line 729: the test that is to tell a unary operand.
unaryOperand(node) ==
  \/ tree[child(node, 0)].type = "unary"
  \/ tree[tree[child(node, 0)].parent].type = "unary"

\* Lines 718-733 on str, the processed operand.
unaryOf(node, op, str) ==
  IF ~str.st.ok THEN str
  ELSE IF op = <<"+">> /\ ~unaryOperand(node)
  THEN R(str.st, Descriptor(str.d.text, AsOptions(str.d)))
  ELSE R(str.st, Descriptor(op \o str.d.text,
                            [NoOptions EXCEPT
                               !.type = str.d.type,
                               !.complexity = str.d.complexity + 1]))

unary(st, node) ==
  unaryOf(node, nodeData(st, node), process(st, child(node, 0)))

builtin(st, node) ==
  LET str == nodeData(st, node)
  IN R(st, Descriptor(str,
                      [NoOptions EXCEPT
                         !.type = IF str \in DOMAIN builtins
                                  THEN builtins[str] ELSE Undefined,
                         !.complexity = 0]))

literal(st, node) ==
  LET str == IF floatRE(nodeData(st, node)) THEN beforeDot(nodeData(st, node))
              ELSE nodeData(st, node)
      result == IF radixRE(str) THEN Number(str) ELSE str
      type == IF boolRE(str) THEN "bool"
              ELSE IF intRE(str) THEN "int"
              ELSE IF floatRE(str) THEN "float"
              ELSE Undefined
  IN R([st EXCEPT !.data[node] = str],
       Descriptor(result, [NoOptions EXCEPT !.type = type, !.complexity = 0]))

\* Lines 797-808: the callchanges rename and the returned Descriptor.
callResult(st, callName, nameType, argValues, type, optimizable) ==
  R(st, Descriptor((IF callName \in DOMAIN callchanges
                    THEN callchanges[callName] ELSE callName)
                   \o <<"(">> \o join(Texts(argValues), <<", ">>) \o <<")">>,
                   [NoOptions EXCEPT
                      !.type = IF type # Undefined THEN type
                               ELSE IF callName \in DOMAIN callchanges
                               THEN Undefined ELSE nameType,
                      !.complexity = 999,
                      !.optimize = IF optimizable THEN "true" ELSE "false"]))

\* Lines 790-794: no type yet, take the type of the first argument.
callGuess(node, callName, nameType, argValues, first) ==
  IF ~first.st.ok THEN first
  ELSE callResult(first.st, callName, nameType, argValues, first.d.type, FALSE)

callTyped(st, node, callName, nameType, argValues, type) ==
  IF type = Undefined
  THEN callGuess(node, callName, nameType, argValues,
                 process(st, child(node, 1)))
  ELSE callResult(st, callName, nameType, argValues, type, TRUE)

\* Lines 775-788, st being the instance after addInclude(callName) and
\* callName the name after the redirect, a plain string without type;
\* this.stdlib[callName] undefined throws on `.include`.
callRedirected(st, node, callName, argValues) ==
  IF callName \notin DOMAIN stdlib THEN Failed(st, "TypeError")
  ELSE callTyped(addInclude(st, stdlib[callName].include), node, callName,
                 Undefined, argValues, stdlib[callName].type)

callStdlib(st, node, callName, nameType, argValues) ==
  IF stdlib[callName].name # <<>>
  THEN callRedirected(st, node, stdlib[callName].name, argValues)
  ELSE callTyped(addInclude(st, stdlib[callName].include), node, callName,
                 nameType, argValues, stdlib[callName].type)

callNamed(node, argValues, callName) ==
  IF ~callName.st.ok THEN callName
  ELSE IF callName.d.text \in DOMAIN stdlib
  THEN callStdlib(addIncludeName(callName.st, callName.d.text, <<>>), node,
                  callName.d.text, callName.d.type, argValues)
  ELSE callTyped(callName.st, node, callName.d.text, callName.d.type,
                 argValues, Undefined)

\* Lines 752-762: a.b(), the access-call case.
accessName(methodName, holderName) ==
  R(holderName.st,
    Descriptor(holderName.d.text \o <<".">> \o methodName.d.text,
               [NoOptions EXCEPT
                  !.type = methodName.d.type,
                  !.complexity = holderName.d.complexity
                                 + methodName.d.complexity]))

accessCall(callee, methodName) ==
  accessName(methodName, process(methodName.st, child(callee, 0)))

callWith(st, node, argValues) ==
  callNamed(node, argValues.ds,
            IF nodeData(st, child(node, 0)) = <<".">>
            THEN accessCall(child(node, 0),
                            process(argValues.st, child(child(node, 0), 1)))
            ELSE process(argValues.st, child(node, 0)))

call(st, node) ==
  callWith(st, node,
           processAll(st, SubSeq(tree[node].children, 2,
                                 Len(tree[node].children))))

\* The kind tags GLSL.prototype.transforms has a handler for.
\* Lines 855-861: each component that is not of complexity 1 is wrapped.
wrapped(components) ==
  [i \in 1..Len(components) |->
     IF components[i].complexity = 1 THEN components[i]
     ELSE Descriptor(<<"(">> \o components[i].text \o <<")">>,
                     AsOptions(components[i]))]

\* last.components = ... (line 855) writes into the Descriptor of the last
\* child, the object process has put into the descriptor Map as a key.
assigned(st, last, components) ==
  IF DescKey(last) \notin DOMAIN st.descriptors
     \/ components = last.components
  THEN st
  ELSE [st EXCEPT !.descriptors =
          [k \in (DOMAIN @ \ {DescKey(last)})
                   \cup {DescKey([last EXCEPT !.components = components])}
             |-> IF k \in DOMAIN @ /\ k # DescKey(last) THEN @[k]
                 ELSE @[DescKey(last)]]]

\* Lines 850-867 on children, the processed children.
groupOf(children) ==
  IF ~children.st.ok THEN R(children.st, DescriptorNull(NoOptions))
  ELSE IF children.ds = <<>> THEN Failed(children.st, "TypeError")
  ELSE R(assigned(children.st, children.ds[Len(children.ds)],
                  wrapped(children.ds[Len(children.ds)].components)),
         Descriptor(<<"(">> \o join(Texts(children.ds), <<", ">>) \o <<")">>,
                    [NoOptions EXCEPT
                       !.type = children.ds[Len(children.ds)].type,
                       !.components =
                          wrapped(children.ds[Len(children.ds)].components),
                       !.complexity = sumComplexity(children.ds)]))

group(st, node) == groupOf(processAll(st, tree[node].children))

transforms ==
  {"stmtlist", "stmt", "struct", "function", "functionargs", "decl",
   "decllist", "placeholder", "suffix", "forloop", "whileloop", "operator",
   "expr", "precision", "comment", "preprocessor", "keyword", "ident",
   "return", "continue", "break", "discard", "do-while", "binary", "assign",
   "ternary", "unary", "builtin", "call", "literal", "if", "group"}

\* t.call(this, node, arg) for the kinds the modelled programs contain.
transform(st, node) ==
  CASE tree[node].type = "stmtlist" -> stmtlist(st, node)
    [] tree[node].type = "stmt" -> stmt(st, node)
    [] tree[node].type = "struct" -> struct(st, node)
    [] tree[node].type = "function" -> function(st, node)
    [] tree[node].type = "functionargs" -> functionargs(st, node)
    [] tree[node].type = "decl" -> decl(st, node)
    [] tree[node].type = "decllist" -> decllist(st, node)
    [] tree[node].type = "placeholder" -> placeholder(st, node)
    [] tree[node].type = "operator" -> operator(st, node)
    [] tree[node].type = "expr" -> expr(st, node)
    [] tree[node].type = "keyword" -> keyword(st, node)
    [] tree[node].type = "ident" -> ident(st, node)
    [] tree[node].type = "unary" -> unary(st, node)
    [] tree[node].type = "builtin" -> builtin(st, node)
    [] tree[node].type = "call" -> call(st, node)
    [] tree[node].type = "literal" -> literal(st, node)
    [] tree[node].type = "group" -> group(st, node)

\* Lines 220-224: the start routines of the first call, and the handler
\* about to run.
starting(st, node) ==
  [(IF ~st.started
    THEN [st EXCEPT !.events = Append(@, "start"), !.started = TRUE]
    ELSE st) EXCEPT !.handled = Append(@, node)]

\* Lines 234-245: cache(result) with one argument, the includes of the
\* result, and the end routines of the first call.
finish(st, startCall, result) ==
  R(IF startCall
    THEN [addInclude(cache(st, DescKey(result), DescriptorNull(NoOptions)),
                     result.include)
            EXCEPT !.started = FALSE, !.events = Append(@, "end")]
    ELSE addInclude(cache(st, DescKey(result), DescriptorNull(NoOptions)),
                    result.include),
    result)

\* Lines 228-232 on t, what the handler returned.  A plain string has no
\* components: optimizeDescriptor throws on it.
applied(startCall, t) ==
  IF ~t.st.ok THEN t
  ELSE IF t.str /\ optimize THEN Failed(t.st, "TypeError")
  ELSE finish(t.st, startCall,
              IF optimize THEN optimizeDescriptor(t.d) ELSE t.d)

process(st, node) ==
  IF ~st.ok THEN R(st, DescriptorNull(NoOptions))
  ELSE IF NodeKey(node) \in DOMAIN st.descriptors
  THEN R(st, st.descriptors[NodeKey(node)])
  ELSE IF node = NoNode
  THEN R(cache(st, NodeKey(node),
               DescriptorNull([NoOptions EXCEPT !.complexity = 0])),
         DescriptorNull([NoOptions EXCEPT !.complexity = 0]))
  ELSE IF ~tree[node].own
  THEN R(cache(st, NodeKey(node), DescriptorNull(NoOptions)),
         DescriptorNull(NoOptions))
  ELSE IF tree[node].type \notin transforms
  THEN R(cache(st, NodeKey(node), DescriptorNull(NoOptions)),
         DescriptorNull(NoOptions))
  ELSE applied(~st.started, transform(starting(st, node), node))

(***************************************************************************)
(* The state machine.                                                      *)
(***************************************************************************)
NoVar == [type |-> Undefined, binding |-> Undefined]

NoRet ==
  [op |-> "new", node |-> NoNode, ok |-> TRUE, error |-> "",
   d |-> DescriptorNull(NoOptions), preamble |-> <<>>, handled |-> <<>>,
   walked |-> TRUE, id |-> <<>>, scope |-> <<>>, set |-> FALSE,
   binding |-> Undefined, value |-> NoVar,
   arg |-> DescriptorNull(NoOptions), left |-> DescriptorNull(NoOptions),
   positions |-> <<>>]

\* The instance as the record the operations work on.
This ==
  [descriptors |-> descriptors, scopes |-> scopes, structs |-> structs,
   uniforms |-> uniforms, varyings |-> varyings, attributes |-> attributes,
   functions |-> functions, includes |-> includes,
   currentScope |-> currentScope, started |-> started, data |-> data,
   events |-> events, ok |-> TRUE, error |-> "", handled |-> <<>>]

Becomes(st) ==
  /\ descriptors' = st.descriptors
  /\ scopes' = st.scopes
  /\ structs' = st.structs
  /\ uniforms' = st.uniforms
  /\ varyings' = st.varyings
  /\ attributes' = st.attributes
  /\ functions' = st.functions
  /\ includes' = st.includes
  /\ currentScope' = st.currentScope
  /\ started' = st.started
  /\ data' = st.data
  /\ tree' = tree
  /\ events' = st.events
  /\ nOps' = nOps + 1

\* new GLSL(): reset() on an instance that has no `started` field yet.
Init ==
  LET st == reset([descriptors |-> EmptyMap, scopes |-> EmptyMap,
                   structs |-> EmptyMap, uniforms |-> EmptyMap,
                   varyings |-> EmptyMap, attributes |-> EmptyMap,
                   functions |-> EmptyMap, includes |-> <<>>,
                   currentScope |-> Global])
  IN /\ descriptors = st.descriptors
     /\ scopes = st.scopes
     /\ structs = st.structs
     /\ uniforms = st.uniforms
     /\ varyings = st.varyings
     /\ attributes = st.attributes
     /\ functions = st.functions
     /\ includes = st.includes
     /\ currentScope = st.currentScope
     /\ started = FALSE
     /\ tree = Arena
     /\ data = [n \in LiteralNodes |-> Arena[n].data]
     /\ events = <<>>
     /\ ret = NoRet
     /\ nOps = 0

Returned(op, node, r) ==
  [NoRet EXCEPT !.op = op, !.node = node, !.ok = r.st.ok, !.error = r.st.error,
                !.d = r.d, !.handled = r.st.handled, !.walked = r.st.ok]

\* compile(arg), arg parsing to the tree rooted at `root`.
Compile(root) ==
  /\ nOps < MaxOps
  /\ LET result == process(This, root)
         lib == stringifyStdlib(result.st.includes)
     IN /\ Becomes(result.st)
        /\ ret' = IF ~result.st.ok THEN Returned("compile", root, result)
                  ELSE IF ~lib.ok
                  THEN [Returned("compile", root, result) EXCEPT
                          !.ok = FALSE, !.error = "TypeError"]
                  ELSE [Returned("compile", root, result) EXCEPT
                          !.preamble = lib.methods]

\* process(node) called from outside.
Process(node) ==
  /\ nOps < MaxOps
  /\ LET result == process(This, node)
     IN /\ Becomes(result.st)
        /\ ret' = Returned("process", node, result)

\* variable(ident, data, scope); scope = Null stands for an omitted scope,
\* set for a data argument given, binding for data.binding.
\* Setting: after the record is created the function reads `variable`, a
\* name bound nowhere in the module: a ReferenceError.
Variable(id, set, binding, scope) ==
  /\ nOps < MaxOps
  /\ LET name == IF scope = Null THEN currentScope ELSE scope
         invoked == [NoRet EXCEPT !.op = "variable", !.id = id, !.scope = name,
                                  !.set = set,
                                  !.binding = IF set THEN binding
                                              ELSE Undefined]
     IN IF name \notin DOMAIN scopes
        THEN /\ Becomes(This)
             /\ ret' = [invoked EXCEPT !.ok = FALSE, !.error = "TypeError"]
        ELSE IF set
        THEN /\ Becomes([This EXCEPT
                           !.scopes[name].vars =
                              IF id \in DOMAIN @ THEN @ ELSE Put(@, id, NoVar)])
             /\ ret' = [invoked EXCEPT !.ok = FALSE, !.error = "ReferenceError"]
        ELSE /\ Becomes(This)
             /\ ret' = [invoked EXCEPT
                          !.value = IF id \in DOMAIN scopes[name].vars
                                    THEN scopes[name].vars[id] ELSE NoVar]

\* addInclude(name) / addInclude({name: prop}) called from outside.
AddInclude(item) ==
  /\ nOps < MaxOps
  /\ Becomes(addInclude(This, <<item>>))
  /\ ret' = [NoRet EXCEPT !.op = "addInclude", !.id = item.name]

\* stringifyStdlib() called from outside.
StringifyStdlib ==
  /\ nOps < MaxOps
  /\ Becomes(This)
  /\ LET lib == stringifyStdlib(includes)
     IN ret' = [NoRet EXCEPT !.op = "stringifyStdlib", !.ok = lib.ok,
                             !.error = IF lib.ok THEN "" ELSE "TypeError",
                             !.preamble = lib.methods]

\* The Descriptors optimizeDescriptor is called on from outside: two-vectors
\* and 2x2 matrices of literal, identifier and call components.
Component(text, complexity, include) ==
  Descriptor(text, [NoOptions EXCEPT !.type = "float",
                                     !.complexity = complexity,
                                     !.include = include])

Vec2(complexity, components, optimizable) ==
  Descriptor(<<"vec2(", ")">>,
             [NoOptions EXCEPT !.type = "vec2", !.complexity = complexity,
                               !.components = components,
                               !.optimize = optimizable])

Mat2(complexity) ==
  Descriptor(<<"mat2(", ")">>,
             [NoOptions EXCEPT
                !.type = "mat2", !.complexity = complexity,
                !.components = << Component(<<"1">>, 0, <<>>),
                                  Component(<<"0">>, 0, <<>>),
                                  Component(<<"0">>, 0, <<>>),
                                  Component(<<"1", ".", "5">>, 0, <<>>) >>])

OptimizeInputs ==
  {Vec2(4, << Component(<<"1">>, 0, <<>>), Component(<<"a">>, 0, <<>>) >>,
        Undefined),
   Vec2(0, << Component(<<"1">>, 0, <<>>), Component(<<"a">>, 0, <<>>) >>,
        Undefined),
   Vec2(999, << Component(<<"1">>, 0, <<>>),
                Component(<<"sin(a)">>, 2,
                          << [name |-> <<"sin">>, prop |-> <<>>] >>) >>,
        Undefined),
   Vec2(4, << Component(<<"1">>, 0, <<>>) >>, Undefined),
   Vec2(4, << Component(<<"1">>, 0, <<>>), Component(<<"a">>, 0, <<>>) >>,
        "false"),
   Mat2(4), Mat2(999), Mat2(0)}

\* optimizeDescriptor(descriptor) called from outside.
OptimizeDescriptor(descriptor) ==
  /\ nOps < MaxOps
  /\ Becomes(This)
  /\ ret' = [NoRet EXCEPT !.op = "optimizeDescriptor",
                          !.arg = descriptor,
                          !.left = optimizeDescriptorLeaves(descriptor),
                          !.d = optimizeDescriptor(descriptor)]

\* The property names swizzlePositions is called on from outside: each
\* letter of the three alphabets, and some longer swizzles.
SwizzleInputs ==
  {<<"x">>, <<"y">>, <<"z">>, <<"w">>, <<"s">>, <<"t">>, <<"p">>, <<"q">>,
   <<"r">>, <<"g">>, <<"b">>, <<"a">>,
   <<"x", "y">>, <<"q", "p", "t", "s">>, <<"b", "g", "r">>}

\* swizzlePositions(prop) called from outside.
SwizzlePositions(prop) ==
  /\ nOps < MaxOps
  /\ Becomes(This)
  /\ ret' = [NoRet EXCEPT !.op = "swizzlePositions", !.id = prop,
                          !.positions = swizzlePositions(prop)]

Reset ==
  /\ nOps < MaxOps
  /\ Becomes(reset(This))
  /\ ret' = [NoRet EXCEPT !.op = "reset"]

Next ==
  \/ \E root \in Roots : Compile(root)
  \/ \E node \in TopNodes : Process(node)
  \/ \E id \in {<<"a">>}, set \in BOOLEAN, binding \in {Undefined, "uniform"},
        scope \in {Null, <<"f">>} :
       Variable(id, set, binding, scope)
  \/ \E item \in {[name |-> <<"nolib">>, prop |-> <<>>],
                  [name |-> <<"vec2">>, prop |-> <<"nomethod">>]} :
       AddInclude(item)
  \/ StringifyStdlib
  \/ \E descriptor \in OptimizeInputs : OptimizeDescriptor(descriptor)
  \/ \E prop \in SwizzleInputs : SwizzlePositions(prop)
  \/ Reset

Spec == Init /\ [][Next]_vars

(***************************************************************************)
(* Properties.                                                             *)
(***************************************************************************)
\* The nodes whose handler ran during the last public call.
Handled == {ret.handled[i] : i \in 1..Len(ret.handled)}

\* node has its own kind tag and a function handler.
HasHandler(node) ==
  node # NoNode /\ tree[node].own /\ tree[node].type \in transforms

\* C1: once process(node) has returned for a node with its own kind tag and
\* a function handler, the descriptor cache holds an entry keyed by that
\* node, and a process(node) that directly follows on the instance returns
\* the same Descriptor without running any handler.
C1_MemoizedByNode ==
  [][(ret'.op = "process" /\ ret'.ok /\ HasHandler(ret'.node))
       => /\ NodeKey(ret'.node) \in DOMAIN descriptors'
          /\ (ret.op = "process" /\ ret.ok /\ ret.node = ret'.node)
               => (ret'.d = ret.d /\ ret'.handled = <<>>)]_vars

\* The instance as reset() leaves it.
Fresh ==
  /\ scopes = (Global :> [name |-> Global, parentScope |-> Null,
                          vars |-> EmptyMap])
  /\ currentScope = Global
  /\ descriptors = EmptyMap
  /\ structs = EmptyMap
  /\ functions = EmptyMap
  /\ uniforms = EmptyMap
  /\ attributes = EmptyMap
  /\ varyings = EmptyMap
  /\ includes = <<>>

\* C2: a compile that follows a compile on the same instance starts from the
\* fresh state: only the parentless global scope, global current scope,
\* empty descriptor cache, registries and include set.
C2_FreshAtCompile ==
  [][(ret.op = "compile" /\ ret'.op = "compile") => Fresh]_vars

\* The function definitions with a body whose handler ran in the last call.
Defined ==
  {n \in Handled : tree[n].type = "function" /\ Len(tree[n].children) >= 3}

\* C3: after the first compile on an instance, the definitions of the
\* program (same base name, pairwise different argument lists) are all in
\* the function registry, each under its own name, the base name among them.
C3_DistinctNames ==
  (nOps = 1 /\ ret.op = "compile" /\ ret.ok /\ Defined # {})
    => /\ Cardinality(DOMAIN functions) = Cardinality(Defined)
       /\ \E n \in Defined : tree[child(n, 0)].tok \in DOMAIN functions

\* How many entries of the sequence are x.
Occurrences(seq, x) == Cardinality({i \in 1..Len(seq) : seq[i] = x})

\* The call expressions processed in the last call whose rendered callee
\* is a routine of the library catalog.
LibraryCalls ==
  {c \in Handled : tree[c].type = "call" /\ tree[child(c, 0)].tok \in DOMAIN stdlib}

\* C4: the preamble a compile returns holds the source of every library
\* routine the program calls exactly once.
C4_IncludedOnce ==
  (ret.op = "compile" /\ ret.ok)
    => \A c \in LibraryCalls :
         Occurrences(ret.preamble, <<stdlib[tree[child(c, 0)].tok].src>>) = 1

\* C4 case: the program with two calls of sin compiled, sin emitted once.
C4_Witness ==
  /\ ret.op = "compile" /\ ret.ok /\ ret.node = 153
  /\ Cardinality(LibraryCalls) = 2
  /\ Occurrences(ret.preamble, <<stdlib[<<"sin">>].src>>) = 1

\* The property name of an access node: N > 1 letters, all swizzle letters.
SwizzleAccess(node) ==
  /\ tree[node].type = "operator" /\ tree[node].data = <<".">>
  /\ Len(tree[child(node, 1)].tok) > 1
  /\ \A i \in 1..Len(tree[child(node, 1)].tok) :
       indexOf(swizzles, tree[child(node, 1)].tok[i]) >= 0

vecN(n) == CASE n = 2 -> "vec2" [] n = 3 -> "vec3" [] OTHER -> "vec4"

\* C5: an access with N > 1 swizzle letters yields a Descriptor of type
\* vecN with N components, and not of the type of the base expression.
C5_SwizzleType ==
  (ret.op = "process" /\ ret.ok /\ SwizzleAccess(ret.node))
    => /\ ret.d.type = vecN(Len(tree[child(ret.node, 1)].tok))
       /\ Len(ret.d.components) = Len(tree[child(ret.node, 1)].tok)
       /\ ret.d.type # process(This, child(ret.node, 0)).d.type

\* The text from the first dot on; empty if there is none.
fraction(s) ==
  IF indexOf(s, ".") < 0 THEN <<>> ELSE SubSeq(s, indexOf(s, ".") + 1, Len(s))

\* C6: a literal of digits only is emitted without a fractional part and
\* typed int; a literal with a fractional part is typed float and its text
\* keeps the fractional digits.
C6_LiteralTyping ==
  (ret.op = "process" /\ ret.ok /\ tree[ret.node].type = "literal")
    => /\ intRE(tree[ret.node].data)
            => (ret.d.type = "int" /\ fraction(ret.d.text) = <<>>)
       /\ fraction(tree[ret.node].data) # <<>>
            => /\ ret.d.type = "float"
               /\ fraction(ret.d.text) = fraction(tree[ret.node].data)

\* No child of node is of the kind.
Lacks(node, kind) ==
  \A i \in 1..Len(tree[node].children) : tree[tree[node].children[i]].type # kind

\* A function node without identifier, argument list or body.
BadFunction(node) ==
  /\ tree[node].type = "function"
  /\ Lacks(node, "ident") \/ Lacks(node, "functionargs") \/ Lacks(node, "stmtlist")

\* A struct node with a member that is no declaration.
BadStruct(node) ==
  /\ tree[node].type = "struct"
  /\ \E i \in 2..Len(tree[node].children) :
       tree[tree[node].children[i]].type # "decl"

\* C7 as stated: a call that runs the handler of a malformed function or
\* struct node ends with an error; the walk never continues past it.
C7_MalformedAborts ==
  (ret.op \in {"process", "compile"}
   /\ \E n \in Handled : BadFunction(n) \/ BadStruct(n))
    => ~ret.ok

\* C7 amended: the call ends with an error when the malformed function node
\* has three children or more, or the node is a malformed struct; a
\* declaration of a function node with fewer than three children returns
\* an empty Descriptor and no error.
C7_MalformedAbortsFromThree ==
  /\ (ret.op \in {"process", "compile"}
      /\ \E n \in Handled :
           \/ BadFunction(n) /\ Len(tree[n].children) >= 3
           \/ BadStruct(n))
       => ~ret.ok
  /\ (ret.op = "process" /\ tree[ret.node].type = "decl"
      /\ child(ret.node, 5) # NoNode
      /\ tree[child(ret.node, 5)].type = "function"
      /\ Len(tree[child(ret.node, 5)].children) < 3)
       => (ret.ok /\ ~ret.d.visible /\ ret.d.text = <<>>)

\* C7 case: a function node of three children, the first a keyword, was
\* handled and the call failed on the assertion.
C7_Witness ==
  /\ ret.op = "process" /\ ret.node = 108
  /\ 109 \in Handled /\ BadFunction(109)
  /\ ~ret.ok /\ ret.error = "AssertionError"

\* C8: stringifyStdlib, alone or at the end of a compile whose walk
\* succeeded, returns normally whatever the include set names, and its
\* output holds the source of every included routine the catalog has.
C8_MissingSkipped ==
  (ret.op = "stringifyStdlib" \/ (ret.op = "compile" /\ ret.walked))
    => /\ ret.ok
       /\ \A i \in 1..Len(includes) :
            includes[i].name \in DOMAIN stdlib
              => Occurrences(ret.preamble, <<stdlib[includes[i].name].src>>) = 1

\* C9: variable(ident, data, scope) with data returns the record of ident
\* in the named scope, which a uniform binding also puts in the uniform
\* registry under ident.
C9_VariableDeclared ==
  (ret.op = "variable" /\ ret.set /\ ret.scope \in DOMAIN scopes)
    => /\ ret.ok
       /\ ret.id \in DOMAIN scopes[ret.scope].vars
       /\ ret.value = scopes[ret.scope].vars[ret.id]
       /\ ret.binding = "uniform"
            => (ret.id \in DOMAIN uniforms /\ uniforms[ret.id] = ret.value)

\* C10: '+' on an operand that is no unary node gives the operand's text,
\* '+' on a unary operand is kept as a prefix; '-', '!' and '~' are
\* prefixed to the operand's text and cost the operand's cost plus 1.
C10_UnaryPlusElided ==
  (ret.op = "process" /\ ret.ok /\ tree[ret.node].type = "unary")
    => IF tree[ret.node].data = <<"+">>
       THEN ret.d.text =
              (IF tree[child(ret.node, 0)].type = "unary" THEN <<"+">> ELSE <<>>)
              \o process(This, child(ret.node, 0)).d.text
       ELSE /\ ret.d.text = tree[ret.node].data
                             \o process(This, child(ret.node, 0)).d.text
            /\ ret.d.complexity =
                 process(This, child(ret.node, 0)).d.complexity + 1

\* A declaration of a function with identifier, argument list and body.
FunctionDecl(node) ==
  /\ tree[node].type = "decl"
  /\ child(node, 5) # NoNode
  /\ tree[child(node, 5)].type = "function"
  /\ Len(tree[child(node, 5)].children) >= 3
  /\ ~BadFunction(child(node, 5))

\* The name of the function node declares.
FunctionId(node) == tree[child(child(node, 5), 0)].data

\* C11: for a function definition with a body, entering the argument list
\* makes the scope named after the function current, and once the function
\* handler has returned that scope is in the scope table and the current
\* scope is again the scope that was current before, an entry of the table.
C11_ScopeRestored ==
  [][(ret'.op = "process" /\ ret'.ok /\ FunctionDecl(ret'.node))
       => /\ functionargs(This, child(child(ret'.node, 5), 1)).st.currentScope
               = FunctionId(ret'.node)
          /\ FunctionId(ret'.node) \in DOMAIN scopes'
          /\ currentScope' = currentScope
          /\ currentScope' \in DOMAIN scopes']_vars

\* The current scope names an entry of the scope table.
C11_CurrentInTable == currentScope \in DOMAIN scopes

\* The group nodes of the last call, each with the Descriptor of its last
\* child.
LastOfGroup(node) ==
  process(This, tree[node].children[Len(tree[node].children)]).d

\* C12: optimizeDescriptor leaves the Descriptor it receives as it was
\* (components, complexity, include), and after the group handler the
\* Descriptor of the group's last child is still the one process made.
C12_NeverMutated ==
  [][/\ ret'.op = "optimizeDescriptor" => ret'.left = ret'.arg
     /\ (ret'.op = "process" /\ ret'.ok /\ tree[ret'.node].type = "group")
          => DescKey(LastOfGroup(ret'.node)) \in DOMAIN descriptors']_vars

\* The optimizer expands d: optimize not false, more than one component,
\* the component costs summing to less than d's complexity.
Expands(d) ==
  /\ d.optimize # "false"
  /\ Len(d.components) > 1
  /\ sumComplexity(d.components) < d.complexity

Alphabets ==
  {<<"x", "y", "z", "w">>, <<"s", "t", "p", "q">>, <<"r", "g", "b", "a">>}

\* The index of a letter within its alphabet, from 0.
AlphabetIndex(letter) ==
  CHOOSE k \in 0..3 : \E alphabet \in Alphabets : alphabet[k + 1] = letter

\* C13: swizzlePositions maps each letter of the three alphabets to its
\* index within its alphabet, a position in 0..3, so the i-th letters of
\* the alphabets get the same position.
C13_SwizzleIndex ==
  ret.op = "swizzlePositions"
    => /\ Len(ret.positions) = Len(ret.id)
       /\ \A i \in 1..Len(ret.id) :
            /\ ret.positions[i] \in 0..3
            /\ ret.positions[i] = AlphabetIndex(ret.id[i])

\* C15: after every call no process call is active and the started flag is
\* false; the events emitted so far alternate 'start', 'end', ...; and a
\* process or compile call that ran a handler emitted exactly one 'start',
\* before anything else it emitted.
C15_StartEndAlternate ==
  [][/\ ~started'
     /\ \A i \in 1..Len(events') :
          events'[i] = IF i % 2 = 1 THEN "start" ELSE "end"
     /\ (ret'.op \in {"process", "compile"} /\ ret'.handled # <<>>)
          => /\ Len(events') > Len(events)
             /\ events'[Len(events) + 1] = "start"
             /\ Cardinality({i \in (Len(events) + 1)..Len(events') :
                               events'[i] = "start"}) = 1]_vars

====
